---- MODULE Spec2Model ----
(***************************************************************************)
(* A model of jira_worklog.py: the worklog() pipeline                      *)
(*   get_weekdays -> fill_time_spent -> prepare_worklog -> push_to_jira.   *)
(*                                                                         *)
(* Calendar dates are day ordinals: date 1 is a Monday, date d+1 is the    *)
(* day after date d.  A date's '%Y-%m-%d' string is the date itself: the   *)
(* random time of day that get_weekdays puts on a Day never reaches it.    *)
(* External calls (isdayoff.ru, the Jira timesheet, input()) are modelled  *)
(* by the responses they return.                                           *)
(***************************************************************************)
EXTENDS Integers, Sequences, FiniteSets, TLC

\* ---------------------------------------------------------------- bounds
\* The longest date range [first_day, last_day], in days.
MaxSpan == 2
\* The largest number of configured issues.
MaxIssues == 3

\* The first days of the ranges tried: Monday, Tuesday, Friday, Saturday.
FirstDays == {1, 2, 5, 6}
\* The dates holidays.Russia() holds: a Tuesday and a Sunday.
Holidays == {2, 7}
\* The (--hours, --minutes) pairs tried, all inside validate_args' ranges.
PlanArgs == {<<0, 0>>, <<2, 30>>, <<8, 0>>, <<8, 59>>}
\* The per-date totals the Jira worklogs add up to.
LoggedSeconds == {3600, 20000, 25200, 27000, 28800, 30000}
\* The bodies isdayoff.ru answers with under status 200 ("100" is its error code).
ResponseTexts == {"0", "1", "2", "100"}
\* The status codes of a response: success and a server error.
StatusCodes == {200, 500}

VARIABLES
    pc,                    \* the position of worklog(): the running step or the way it ended
    alt_day_off,           \* --alt-day-off
    first_day, last_day,   \* first_day_of_month, last_day_of_month
    user_plan_time_spent,  \* Day.user_plan_time_spent
    issues,                \* the keys of the issues dict, in declaration order
    current_day,           \* get_weekdays: current_day
    i,                     \* calculate_day_status: the loop index of the next attempt
    is_day_off_response,   \* calculate_day_status: the last response of isdayoff.ru
    weekdays, day_offs,    \* get_weekdays: weekdays, day_offs
    worklog_status,        \* get_jira_worklogs: response.status_code (0: not requested)
    all_time_spent,        \* fill_time_spent: all_time_spent
    overtime,              \* fill_time_spent: overtime
    prepared_worklogs,     \* prepare_worklog: prepared_worklogs
    is_push_to_jira,       \* push_to_jira: the user's answer
    add_worklog            \* the jira.add_worklog calls made, in order

vars == <<pc, alt_day_off, first_day, last_day, user_plan_time_spent, issues,
          current_day, i, is_day_off_response, weekdays, day_offs, worklog_status,
          all_time_spent, overtime, prepared_worklogs, is_push_to_jira, add_worklog>>

\* ------------------------------------------------------------- DayStatus
WEEK_DAY == [text |-> "0", seconds |-> 28800]
DAY_OFF == [text |-> "1", seconds |-> 0]
CUT_DAY == [text |-> "2", seconds |-> 25200]
DayStatus == <<WEEK_DAY, DAY_OFF, CUT_DAY>>

is_day_off(status) == status.text = "1"
is_day_cut(status) == status.text = "2"
available_working_time(status) == status.seconds

\* What text_to_day_status raises when no member has the code.
ValueError == [raised |-> "ValueError"]

\* The first member whose code is text; ValueError when there is none.
RECURSIVE MemberOf(_, _)
MemberOf(text, k) ==
    IF k > Len(DayStatus) THEN ValueError
    ELSE IF DayStatus[k].text = text THEN DayStatus[k]
    ELSE MemberOf(text, k + 1)

text_to_day_status(text) == MemberOf(text, 1)

bool_to_day_status(alt_day_off_status) ==
    IF alt_day_off_status THEN DAY_OFF ELSE WEEK_DAY

\* ------------------------------------------------------------- helpers
convert_full_time_to_seconds(hours, minutes, seconds) ==
    hours * 3600 + minutes * 60 + seconds

convert_seconds_to_hours(seconds) == seconds \div 3600

\* is_time_over with the full work day itself counted as over.
is_time_over_or_equal(seconds) == seconds >= 28800

is_time_over(seconds) == seconds > 28800

\* datetime.weekday(): Monday is 0, Sunday is 6.
weekday(day) == (day - 1) % 7

\* The empty dict.
dict == <<>>

\* A Day of get_weekdays.
Day(date, day_status, fact_time_spent) ==
    [date |-> date, day_status |-> day_status, fact_time_spent |-> fact_time_spent]

\* ------------------------------------------------------------------ Init
\* The state when worklog() calls get_weekdays: the arguments have passed
\* validate_args and get_first_and_last_days (first_day <= last_day).
Init ==
    /\ pc = "get_weekdays"
    /\ alt_day_off \in {0, 1}
    /\ first_day \in FirstDays
    /\ last_day \in first_day .. first_day + MaxSpan - 1
    /\ \E args \in PlanArgs :
           user_plan_time_spent = convert_full_time_to_seconds(args[1], args[2], 0)
    /\ \E issue_len \in 1 .. MaxIssues : issues = [k \in 1 .. issue_len |-> k]
    /\ current_day = first_day
    /\ i = 0
    /\ is_day_off_response = [status_code |-> 0, text |-> ""]
    /\ weekdays = <<>>
    /\ day_offs = <<>>
    /\ worklog_status = 0
    /\ all_time_spent = dict
    /\ overtime = dict
    /\ prepared_worklogs = <<>>
    /\ is_push_to_jira = "unasked"
    /\ add_worklog = <<>>

\* ---------------------------------------------------------- get_weekdays
\* The local rule of calculate_day_status (alt_day_off set).
calculate_day_status_alt(day) ==
    bool_to_day_status(weekday(day) < 5 /\ day \notin Holidays)

\* LoopBody without the test that keeps days off out of weekdays.
LoopBodyUnfiltered(day_status) ==
    /\ weekdays' = Append(weekdays, Day(current_day, day_status, 0))
    /\ day_offs' = day_offs
    /\ current_day' = current_day + 1
    /\ i' = 0
    /\ pc' = IF current_day + 1 <= last_day THEN "get_weekdays" ELSE "fill_time_spent"

\* The rest of one iteration of get_weekdays' loop once the day's status is
\* known; the function returns to worklog() after the last day.
LoopBody(day_status) ==
    /\ IF ~is_day_off(day_status)
       THEN /\ weekdays' = Append(weekdays, Day(current_day, day_status, 0))
            /\ day_offs' = day_offs
       ELSE /\ day_offs' = Append(day_offs, current_day)
            /\ weekdays' = weekdays
    /\ current_day' = current_day + 1
    /\ i' = 0
    /\ pc' = IF current_day + 1 <= last_day THEN "get_weekdays" ELSE "fill_time_spent"

Rest == <<alt_day_off, first_day, last_day, user_plan_time_spent, issues>>
Later == <<worklog_status, all_time_spent, overtime, prepared_worklogs,
           is_push_to_jira, add_worklog>>

\* One iteration under the local rule.
LocalDay ==
    /\ pc = "get_weekdays" /\ alt_day_off = 1 /\ current_day <= last_day
    /\ LoopBody(calculate_day_status_alt(current_day))
    /\ UNCHANGED <<is_day_off_response, Rest, Later>>

\* The number of attempts of calculate_day_status' loop.
Attempts == 3

\* Status 200 with an unknown body handled as any other status is: retried.
StatusCode200Retrying(text) ==
    /\ is_day_off_response' = [status_code |-> 200, text |-> text]
    /\ IF text_to_day_status(text) = ValueError
       THEN /\ i' = i + 1
            /\ pc' = IF i + 1 < Attempts THEN "get_weekdays" ELSE "exit"
            /\ UNCHANGED <<current_day, weekdays, day_offs>>
       ELSE LoopBody(text_to_day_status(text))

\* Status 200: the body decides; an unknown body raises ValueError, which
\* nothing catches.
StatusCode200(text) ==
    /\ is_day_off_response' = [status_code |-> 200, text |-> text]
    /\ IF text_to_day_status(text) = ValueError
       THEN /\ pc' = "ValueError"
            /\ UNCHANGED <<current_day, i, weekdays, day_offs>>
       ELSE LoopBody(text_to_day_status(text))

\* StatusCodeOther with one attempt too many before exit(1).
StatusCodeOtherOffByOne(status_code) ==
    /\ is_day_off_response' = [status_code |-> status_code, text |-> ""]
    /\ i' = i + 1
    /\ pc' = IF i + 1 <= Attempts THEN "get_weekdays" ELSE "exit"
    /\ UNCHANGED <<current_day, weekdays, day_offs>>

\* Any other status: log, sleep, try again; exit(1) after the last attempt.
StatusCodeOther(status_code) ==
    /\ is_day_off_response' = [status_code |-> status_code, text |-> ""]
    /\ i' = i + 1
    /\ pc' = IF i + 1 < Attempts THEN "get_weekdays" ELSE "exit"
    /\ UNCHANGED <<current_day, weekdays, day_offs>>

\* One attempt of the remote lookup for current_day.
RemoteAttempt ==
    /\ pc = "get_weekdays" /\ alt_day_off = 0 /\ current_day <= last_day
    /\ \E status_code \in StatusCodes :
          IF status_code = 200
          THEN \E text \in ResponseTexts : StatusCode200(text)
          ELSE StatusCodeOther(status_code)
    /\ UNCHANGED <<Rest, Later>>

\* ------------------------------------------------------- fill_time_spent
\* search_dates of get_jira_worklogs: the dates of the days asked about.
search_dates(days) == {days[k].date : k \in 1 .. Len(days)}

\* The dicts time_spent_per_day can end as: the dates of search_dates that
\* have a worklog of the user, each with the sum of its timeSpentSeconds.
TimeSpentPerDay(days) ==
    UNION {[dates -> LoggedSeconds] : dates \in SUBSET search_dates(days)}

\* get_jira_worklogs without the check of the status code.
get_jira_worklogs_unchecked(status_code, time_spent_per_day) == time_spent_per_day

\* What get_jira_worklogs returns for a response of the timesheet report whose
\* body and worklogs would add up to time_spent_per_day.
get_jira_worklogs(status_code, time_spent_per_day) ==
    IF status_code # 200 THEN dict ELSE time_spent_per_day

\* total_time_spent of a day: its entry of all_time_spent, 0 without one.
total_time_spent(time_spent, day_str) ==
    IF day_str \in DOMAIN time_spent THEN time_spent[day_str] ELSE 0

\* fact_time_spent without the cap at what is left of the day.
fact_time_spent_uncapped(day, total) ==
    IF total >= available_working_time(day.day_status) THEN 0
    ELSE user_plan_time_spent

\* fact_time_spent of a day with total seconds logged already.
fact_time_spent(day, total) ==
    IF total >= available_working_time(day.day_status) THEN 0
    ELSE IF available_working_time(day.day_status) - total < user_plan_time_spent
         THEN available_working_time(day.day_status) - total
         ELSE user_plan_time_spent

\* The overtime dict after the loop over days.
Overtime(days, time_spent) ==
    [day_str \in {d \in search_dates(days) :
                     is_time_over(total_time_spent(time_spent, d))}
        |-> total_time_spent(time_spent, day_str)]

\* fill_time_spent: get_jira_worklogs reads days[0] first, an IndexError on
\* an empty list; otherwise the single request, then the loop over days.
\* The input() that shows a non-empty overtime returns on any key.
FillTimeSpent ==
    /\ pc = "fill_time_spent"
    /\ IF weekdays = <<>>
       THEN /\ pc' = "IndexError"
            /\ UNCHANGED <<weekdays, worklog_status, all_time_spent, overtime>>
       ELSE \E status_code \in StatusCodes :
            \E time_spent_per_day \in TimeSpentPerDay(weekdays) :
               LET time_spent == get_jira_worklogs(status_code, time_spent_per_day) IN
               /\ worklog_status' = status_code
               /\ all_time_spent' = time_spent
               /\ overtime' = Overtime(weekdays, time_spent)
               /\ weekdays' =
                     [k \in 1 .. Len(weekdays) |->
                        [weekdays[k] EXCEPT !.fact_time_spent =
                            fact_time_spent(weekdays[k],
                               total_time_spent(time_spent, weekdays[k].date))]]
               /\ pc' = "prepare_worklog"
    /\ UNCHANGED <<Rest, current_day, i, is_day_off_response, day_offs,
                   prepared_worklogs, is_push_to_jira, add_worklog>>

\* ------------------------------------------------------- prepare_worklog
\* time_per_issue without the rounding down to whole hours.
time_per_issue_unrounded(day, issue_len) ==
    day.fact_time_spent \div issue_len

time_per_issue(day, issue_len) ==
    ((day.fact_time_spent \div 3600) \div issue_len) * 3600

\* last_time without the other issues' shares taken off.
last_time_whole(day, issue_len) == day.fact_time_spent

last_time(day, issue_len) ==
    day.fact_time_spent - time_per_issue(day, issue_len) * (issue_len - 1)

\* PreparedWorklog with last_time given to the first issue, not the last.
PreparedWorklogFirst(day, index) ==
    [issue |-> issues[index + 1],
     day |-> day.date,
     int_time_spent |-> IF index = 0
                        THEN last_time(day, Len(issues))
                        ELSE time_per_issue(day, Len(issues))]

\* The entry of the index-th issue (enumerate counts from 0) for a day.
PreparedWorklog(day, index) ==
    [issue |-> issues[index + 1],
     day |-> day.date,
     int_time_spent |-> IF Len(issues) - 1 = index
                        THEN last_time(day, Len(issues))
                        ELSE time_per_issue(day, Len(issues))]

\* The entries one day adds to prepared_worklogs.
DayWorklogs(day) ==
    IF time_per_issue(day, Len(issues)) = 0 /\ last_time(day, Len(issues)) = 0
    THEN <<>>
    ELSE [k \in 1 .. Len(issues) |-> PreparedWorklog(day, k - 1)]

\* prepared_worklogs after the days from the k-th on.
RECURSIVE PreparedFrom(_, _)
PreparedFrom(days, k) ==
    IF k > Len(days) THEN <<>>
    ELSE DayWorklogs(days[k]) \o PreparedFrom(days, k + 1)

PrepareWorklog ==
    /\ pc = "prepare_worklog"
    /\ prepared_worklogs' = PreparedFrom(weekdays, 1)
    /\ pc' = "push_to_jira"
    /\ UNCHANGED <<Rest, current_day, i, is_day_off_response, weekdays, day_offs,
                   worklog_status, all_time_spent, overtime, is_push_to_jira,
                   add_worklog>>

\* ---------------------------------------------------------- push_to_jira
\* is_empty that takes a duration of 0 for time to log.
is_empty_below_zero(log) == log.int_time_spent < 0

is_empty(log) == log.int_time_spent = 0

\* The add_worklog calls of the loop over p_worklog from the k-th entry on.
RECURSIVE PushFrom(_, _)
PushFrom(p_worklog, k) ==
    IF k > Len(p_worklog) THEN <<>>
    ELSE IF ~is_empty(p_worklog[k])
         THEN <<p_worklog[k]>> \o PushFrom(p_worklog, k + 1)
         ELSE PushFrom(p_worklog, k + 1)

\* push_to_jira, with the answer get_yes_no_input returns.
PushToJira ==
    /\ pc = "push_to_jira"
    /\ \E answer \in BOOLEAN :
          /\ is_push_to_jira' = IF answer THEN "yes" ELSE "no"
          /\ add_worklog' = IF answer THEN PushFrom(prepared_worklogs, 1) ELSE <<>>
    /\ pc' = "done"
    /\ UNCHANGED <<Rest, current_day, i, is_day_off_response, weekdays, day_offs,
                   worklog_status, all_time_spent, overtime, prepared_worklogs>>

\* ------------------------------------------------------------------ Spec
Next ==
    \/ LocalDay
    \/ RemoteAttempt
    \/ FillTimeSpent
    \/ PrepareWorklog
    \/ PushToJira

Spec == Init /\ [][Next]_vars

\* ================================================================ claims
\* The steps of worklog() after fill_time_spent has returned.
Filled == pc \in {"prepare_worklog", "push_to_jira", "done"}
\* The steps of worklog() after prepare_worklog has returned.
Prepared == pc \in {"push_to_jira", "done"}

\* The seconds a working day can take: 28800, or 25200 on a cut day.
Available(day) == IF day.day_status.text = "2" THEN 25200 ELSE 28800
\* The seconds already logged on a working day's date.
Already(day) ==
    IF day.date \in DOMAIN all_time_spent THEN all_time_spent[day.date] ELSE 0

\* The entries of prepared_worklogs for a date, in order.
LogsOf(date) == SelectSeq(prepared_worklogs, LAMBDA log : log.day = date)

RECURSIVE SumTime(_)
SumTime(logs) ==
    IF logs = <<>> THEN 0 ELSE Head(logs).int_time_spent + SumTime(Tail(logs))

\* No step after get_weekdays has run.
NothingLater ==
    /\ worklog_status = 0 /\ all_time_spent = dict /\ overtime = dict
    /\ prepared_worklogs = <<>> /\ is_push_to_jira = "unasked" /\ add_worklog = <<>>

\* C1: after fill_time_spent every working day is a work day or a cut day and
\* its fact_time_spent is 0 when already >= available, available - already
\* when that is below the daily target, and the target otherwise.
C1_FactTimeSpent ==
    Filled =>
        \A k \in 1 .. Len(weekdays) :
            LET day == weekdays[k] IN
            /\ day.day_status \in {WEEK_DAY, CUT_DAY}
            /\ day.fact_time_spent =
                  IF Already(day) >= Available(day) THEN 0
                  ELSE IF Available(day) - Already(day) < user_plan_time_spent
                       THEN Available(day) - Already(day)
                       ELSE user_plan_time_spent

\* C1 witness: a cut day with 20000 s logged and a target of 28800 gets 5200,
\* next to a work day with 28800 s logged that gets 0.
C1_Witness ==
    /\ Filled /\ user_plan_time_spent = 28800
    /\ \E k \in 1 .. Len(weekdays) :
          /\ weekdays[k].day_status = CUT_DAY /\ Already(weekdays[k]) = 20000
          /\ weekdays[k].fact_time_spent = 5200
    /\ \E k \in 1 .. Len(weekdays) :
          /\ weekdays[k].day_status = WEEK_DAY /\ Already(weekdays[k]) = 28800
          /\ weekdays[k].fact_time_spent = 0

\* C2 as claimed: the int_time_spent of a day's entries sum to at most
\* available - already, whatever is already logged.
C2_Original ==
    Prepared =>
        \A k \in 1 .. Len(weekdays) :
            SumTime(LogsOf(weekdays[k].date))
                <= Available(weekdays[k]) - Already(weekdays[k])

\* C2 amended: the int_time_spent of a day's entries sum to at most
\* available - already while already <= available, and to 0 once the logged
\* seconds exceed the day's capacity (where available - already is negative).
C2_SumWithinRemaining ==
    Prepared =>
        \A k \in 1 .. Len(weekdays) :
            LET day == weekdays[k] IN
            IF Already(day) > Available(day)
            THEN SumTime(LogsOf(day.date)) = 0
            ELSE SumTime(LogsOf(day.date)) <= Available(day) - Already(day)

\* C2 witness: one day logged above its capacity with no time allotted, next
\* to a day whose entries use up exactly what was left of its capacity.
C2_Witness ==
    /\ Prepared /\ Len(issues) > 1
    /\ \E k \in 1 .. Len(weekdays) :
          /\ Already(weekdays[k]) > Available(weekdays[k])
          /\ LogsOf(weekdays[k].date) = <<>>
    /\ \E k \in 1 .. Len(weekdays) :
          /\ Already(weekdays[k]) > 0
          /\ SumTime(LogsOf(weekdays[k].date))
                = Available(weekdays[k]) - Already(weekdays[k])
          /\ SumTime(LogsOf(weekdays[k].date)) > 0

\* floor(floor(S / 3600) / N) * 3600.
PerItem(S, N) == ((S \div 3600) \div N) * 3600

\* C3: a day with S = 0 has no entry; any other day has one entry per issue,
\* in declaration order, the first N-1 of PerItem(S, N) seconds and the last of
\* S - PerItem(S, N) * (N-1), so that the day's entries sum to S.
C3_Entries ==
    Prepared =>
        \A k \in 1 .. Len(weekdays) :
            LET S == weekdays[k].fact_time_spent
                N == Len(issues)
                logs == LogsOf(weekdays[k].date)
            IN  IF S = 0 THEN logs = <<>>
                ELSE /\ Len(logs) = N
                     /\ \A n \in 1 .. N :
                           /\ logs[n].issue = issues[n]
                           /\ logs[n].int_time_spent =
                                 IF n < N THEN PerItem(S, N)
                                 ELSE S - PerItem(S, N) * (N - 1)
                     /\ SumTime(logs) = S

\* C3 witness: S = 28800 over two issues gives 14400 and 14400, next to a day
\* with S = 0.
C3_Witness ==
    /\ Prepared /\ Len(issues) = 2
    /\ \E k \in 1 .. Len(weekdays) :
          /\ weekdays[k].fact_time_spent = 28800
          /\ LogsOf(weekdays[k].date) =
                <<[issue |-> 1, day |-> weekdays[k].date, int_time_spent |-> 14400],
                  [issue |-> 2, day |-> weekdays[k].date, int_time_spent |-> 14400]>>
    /\ \E k \in 1 .. Len(weekdays) :
          /\ weekdays[k].fact_time_spent = 0
          /\ LogsOf(weekdays[k].date) = <<>>

\* C4 as claimed: with S > 0 and N > 1 every entry before the last is
\* PerItem(S, N) and the last entry is not.
C4_Original ==
    Prepared =>
        \A k \in 1 .. Len(weekdays) :
            LET S == weekdays[k].fact_time_spent
                N == Len(issues)
                logs == LogsOf(weekdays[k].date)
            IN  (S > 0 /\ N > 1) =>
                    /\ Len(logs) = N
                    /\ \A n \in 1 .. N - 1 : logs[n].int_time_spent = PerItem(S, N)
                    /\ logs[N].int_time_spent # PerItem(S, N)

\* C4 amended: with S > 0 and N > 1 every entry before the last is
\* PerItem(S, N); the last entry is at least PerItem(S, N) and differs from it
\* exactly when S is not a multiple of 3600 * N.
C4_LastDiffers ==
    Prepared =>
        \A k \in 1 .. Len(weekdays) :
            LET S == weekdays[k].fact_time_spent
                N == Len(issues)
                logs == LogsOf(weekdays[k].date)
            IN  (S > 0 /\ N > 1) =>
                    /\ Len(logs) = N
                    /\ \A n \in 1 .. N - 1 : logs[n].int_time_spent = PerItem(S, N)
                    /\ logs[N].int_time_spent >= PerItem(S, N)
                    /\ (logs[N].int_time_spent # PerItem(S, N)) <=> (S % (3600 * N) # 0)

\* C4 witness: with several issues, one day whose last entry exceeds the
\* others and one day whose entries are all equal.
C4_Witness ==
    /\ Prepared /\ Len(issues) > 1
    /\ \E k \in 1 .. Len(weekdays) :
          LET logs == LogsOf(weekdays[k].date) IN
          /\ logs # <<>>
          /\ logs[Len(logs)].int_time_spent > logs[1].int_time_spent
    /\ \E k \in 1 .. Len(weekdays) :
          LET logs == LogsOf(weekdays[k].date) IN
          /\ logs # <<>>
          /\ logs[Len(logs)].int_time_spent = logs[1].int_time_spent

\* C5 as claimed: under the local rule no lookup is made, the run never fails
\* in get_weekdays, every date found a day off is a Saturday, a Sunday or a
\* holiday, and every date found a working day is a Monday to Friday outside
\* the holidays, classified WEEK_DAY.
C5_LocalRule ==
    alt_day_off = 1 =>
        /\ is_day_off_response.status_code = 0
        /\ pc \notin {"exit", "ValueError"}
        /\ \A k \in 1 .. Len(day_offs) :
              (day_offs[k] - 1) % 7 >= 5 \/ day_offs[k] \in Holidays
        /\ \A k \in 1 .. Len(weekdays) :
              /\ (weekdays[k].date - 1) % 7 < 5
              /\ weekdays[k].date \notin Holidays
              /\ weekdays[k].day_status.text = "0"

\* What a step of the remote lookup for current_day does, by its response.
C6_Step ==
    /\ pc = "exit" => FALSE
    /\ (alt_day_off = 0 /\ pc = "get_weekdays") =>
          LET r == is_day_off_response' IN
          /\ i < 3
          /\ (r.status_code = 200 /\ r.text \in {"0", "1", "2"}) =>
                /\ current_day' = current_day + 1
                /\ i' = 0
                /\ pc' \in {"get_weekdays", "fill_time_spent"}
                /\ r.text = "0" =>
                      /\ weekdays' = Append(weekdays,
                            [date |-> current_day, day_status |-> WEEK_DAY,
                             fact_time_spent |-> 0])
                      /\ day_offs' = day_offs
                /\ r.text = "1" =>
                      /\ day_offs' = Append(day_offs, current_day)
                      /\ weekdays' = weekdays
                /\ r.text = "2" =>
                      /\ weekdays' = Append(weekdays,
                            [date |-> current_day, day_status |-> CUT_DAY,
                             fact_time_spent |-> 0])
                      /\ day_offs' = day_offs
          /\ r.status_code # 200 =>
                /\ current_day' = current_day
                /\ weekdays' = weekdays /\ day_offs' = day_offs
                /\ i' = i + 1
                /\ pc' = IF i = 2 THEN "exit" ELSE "get_weekdays"
    /\ pc' = "exit" =>
          /\ i' = 3 /\ is_day_off_response'.status_code # 200
          /\ NothingLater'
    /\ pc' \in {"fill_time_spent", "prepare_worklog", "push_to_jira", "done"} =>
          Len(weekdays') + Len(day_offs') = last_day - first_day + 1

\* C6: a date takes at most 3 lookups; the first answer 200 with body "0",
\* "1" or "2" classifies the date WEEK_DAY, DAY_OFF or CUT_DAY and moves on to
\* the next date; a third answer other than 200 ends the run in exit(1), from
\* where nothing runs any more; get_weekdays returns only with every date of
\* the range classified.
C6_RemoteLookup == [][C6_Step]_vars

\* C6 witness: the run has ended in exit(1) on the third failed lookup of a
\* date, after an earlier date of the range was classified.
C6_Witness ==
    /\ pc = "exit" /\ i = 3 /\ current_day > first_day
    /\ Len(weekdays) + Len(day_offs) < last_day - first_day + 1

\* The lookups made for current_day when the run ended in get_weekdays.
AttemptsMade == IF pc = "ValueError" THEN i + 1 ELSE i

\* C7 as claimed: a body other than "0", "1", "2" under status 200 is retried
\* like a status other than 200, so the run is aborted in get_weekdays only
\* with the 3 attempts of the date used up.
C7_Original ==
    pc \in {"exit", "ValueError"} => AttemptsMade = 3

\* C7 amended: a body other than "0", "1", "2" under status 200 is not retried:
\* the run is aborted by the ValueError of text_to_day_status on the attempt
\* that receives it (the first, second or third of the date), and such a body
\* is the only cause of that abort; nothing after get_weekdays runs.
C7_BadBodyAborts ==
    /\ (is_day_off_response.status_code = 200
           /\ is_day_off_response.text \notin {"0", "1", "2"})
          <=> pc = "ValueError"
    /\ pc = "ValueError" =>
          /\ alt_day_off = 0 /\ i \in 0 .. 2
          /\ Len(weekdays) + Len(day_offs) = current_day - first_day
          /\ NothingLater

\* C7 witness: the first lookup of a date answered 200 with an unknown body
\* and the run was aborted, after an earlier date was classified.
C7_Witness ==
    /\ pc = "ValueError" /\ i = 0 /\ current_day > first_day
    /\ is_day_off_response = [status_code |-> 200, text |-> "100"]

\* C8: after fill_time_spent a working day's date is in overtime, with its
\* logged seconds, exactly when these exceed 28800, whatever the day's
\* capacity; a cut day logged above 25200 has fact_time_spent 0 either way.
C8_Overtime ==
    /\ ~Filled => overtime = dict
    /\ Filled =>
          /\ DOMAIN overtime \subseteq {weekdays[k].date : k \in 1 .. Len(weekdays)}
          /\ \A k \in 1 .. Len(weekdays) :
                LET day == weekdays[k] IN
                /\ day.date \in DOMAIN overtime <=> Already(day) > 28800
                /\ day.date \in DOMAIN overtime => overtime[day.date] = Already(day)
                /\ (day.day_status.text = "2" /\ Already(day) > 25200) =>
                      day.fact_time_spent = 0

\* C8 witness: a cut day with 30000 s logged, flagged, and a cut day with
\* 27000 s logged, not flagged, both with fact_time_spent 0.
C8_Witness ==
    /\ Filled
    /\ \E k \in 1 .. Len(weekdays) :
          /\ weekdays[k].day_status = CUT_DAY /\ Already(weekdays[k]) = 30000
          /\ weekdays[k].date \in DOMAIN overtime
          /\ weekdays[k].fact_time_spent = 0
    /\ \E k \in 1 .. Len(weekdays) :
          /\ weekdays[k].day_status = CUT_DAY /\ Already(weekdays[k]) = 27000
          /\ weekdays[k].date \notin DOMAIN overtime
          /\ weekdays[k].fact_time_spent = 0

\* The place of an entry in prepared_worklogs.
PlaceOf(log) == CHOOSE n \in 1 .. Len(prepared_worklogs) : prepared_worklogs[n] = log

\* C9: no add_worklog call is ever made for an entry of duration 0; after a
\* "yes" the calls are the entries of prepared_worklogs with a duration other
\* than 0, each once, in the order of prepared_worklogs; after a "no", and
\* before push_to_jira, there is no call.
C9_Submission ==
    /\ \A k \in 1 .. Len(add_worklog) : add_worklog[k].int_time_spent # 0
    /\ pc # "done" => add_worklog = <<>>
    /\ pc = "done" =>
          IF is_push_to_jira = "yes"
          THEN /\ \A n \in 1 .. Len(prepared_worklogs) :
                     prepared_worklogs[n].int_time_spent # 0 =>
                        Cardinality({k \in 1 .. Len(add_worklog) :
                                        add_worklog[k] = prepared_worklogs[n]}) = 1
               /\ \A k \in 1 .. Len(add_worklog) :
                     \E n \in 1 .. Len(prepared_worklogs) :
                        prepared_worklogs[n] = add_worklog[k]
               /\ \A j, k \in 1 .. Len(add_worklog) :
                     j < k => PlaceOf(add_worklog[j]) < PlaceOf(add_worklog[k])
          ELSE is_push_to_jira = "no" /\ add_worklog = <<>>

\* C9 witness: after a "yes", prepared_worklogs held entries of duration 0
\* that were left out and entries that were submitted.
C9_Witness ==
    /\ pc = "done" /\ is_push_to_jira = "yes"
    /\ \E n \in 1 .. Len(prepared_worklogs) : prepared_worklogs[n].int_time_spent = 0
    /\ Len(add_worklog) > 1
    /\ Len(add_worklog) < Len(prepared_worklogs)

\* The smaller of the daily target and a day's capacity.
TargetOrCapacity(day) ==
    IF user_plan_time_spent < Available(day) THEN user_plan_time_spent
    ELSE Available(day)

\* C10: once the timesheet request has answered another status than 200,
\* fill_time_spent has returned (no second request): all_time_spent and
\* overtime are empty, every working day's fact_time_spent is
\* min(target, capacity), and prepare_worklog allots just that to each day.
C10_FetchFailure ==
    worklog_status \notin {0, 200} =>
        /\ Filled
        /\ all_time_spent = dict /\ overtime = dict
        /\ \A k \in 1 .. Len(weekdays) :
              /\ weekdays[k].fact_time_spent = TargetOrCapacity(weekdays[k])
              /\ Prepared =>
                    SumTime(LogsOf(weekdays[k].date)) = TargetOrCapacity(weekdays[k])

\* C10 witness: after a failed timesheet request the run has ended with
\* worklogs submitted, a cut day among them allotted its whole capacity.
C10_Witness ==
    /\ worklog_status = 500 /\ pc = "done" /\ add_worklog # <<>>
    /\ \E k \in 1 .. Len(weekdays) :
          /\ weekdays[k].day_status = CUT_DAY
          /\ weekdays[k].fact_time_spent = 25200
          /\ user_plan_time_spent > 25200

\* The dates of the working days, in list order.
DatesOf(days) == [k \in 1 .. Len(days) |-> days[k].date]

\* A sequence of dates in strictly ascending order.
Ascending(dates) == \A j, k \in 1 .. Len(dates) : j < k => dates[j] < dates[k]

\* The elements of a sequence.
Range(seq) == {seq[k] : k \in 1 .. Len(seq)}

\* The status calculate_day_status returns in a step that classifies
\* current_day: the local rule's, or the member the response's body names.
Classified ==
    IF alt_day_off = 1 THEN calculate_day_status_alt(current_day)
    ELSE IF is_day_off_response'.text = "0" THEN WEEK_DAY
    ELSE IF is_day_off_response'.text = "1" THEN DAY_OFF
    ELSE CUT_DAY

\* What a step does to the calendar, and what holds of the calendar after it.
C11_Step ==
    /\ IF current_day' # current_day
       THEN \* the step classifies current_day, the dates one by one
            /\ pc = "get_weekdays" /\ current_day <= last_day
            /\ current_day' = current_day + 1
            /\ IF Classified.text = "1"
               THEN /\ day_offs' = Append(day_offs, current_day)
                    /\ weekdays' = weekdays
               ELSE /\ weekdays' = Append(weekdays,
                          [date |-> current_day, day_status |-> Classified,
                           fact_time_spent |-> 0])
                    /\ day_offs' = day_offs
       ELSE \* no other step moves a date in or out of the lists
            /\ DatesOf(weekdays') = DatesOf(weekdays)
            /\ \A k \in 1 .. Len(weekdays) :
                  weekdays'[k].day_status = weekdays[k].day_status
            /\ day_offs' = day_offs
    /\ Ascending(DatesOf(weekdays')) /\ Ascending(day_offs')
    /\ Range(DatesOf(weekdays')) \cap Range(day_offs') = {}
    /\ Range(DatesOf(weekdays')) \cup Range(day_offs') = first_day .. current_day' - 1
    /\ \A k \in 1 .. Len(weekdays') : weekdays'[k].day_status.text # "1"
    /\ pc' \in {"fill_time_spent", "prepare_worklog", "push_to_jira", "done",
                "IndexError"} => current_day' = last_day + 1
    /\ \A n \in 1 .. Len(prepared_worklogs') :
          /\ prepared_worklogs'[n].day \in Range(DatesOf(weekdays'))
          /\ prepared_worklogs'[n].day \notin Range(day_offs')
    /\ \A n \in 1 .. Len(add_worklog') :
          /\ add_worklog'[n].day \in Range(DatesOf(weekdays'))
          /\ add_worklog'[n].day \notin Range(day_offs')

\* C11: get_weekdays classifies the dates of the range one by one from
\* first_day to last_day, each once; a date classified DAY_OFF goes to day_offs
\* and every other date to weekdays, both in ascending order, together exactly
\* the dates classified so far, and all of the range when get_weekdays has
\* returned; no entry of prepared_worklogs and no add_worklog call has the
\* date of a day off.
C11_Calendar == [][C11_Step]_vars

\* C11 witness: the run has ended with worklogs submitted for a range that
\* held a day off and a working day.
C11_Witness ==
    /\ pc = "done" /\ add_worklog # <<>>
    /\ day_offs # <<>> /\ weekdays # <<>>
    /\ \E k \in 1 .. Len(day_offs) : day_offs[k] < weekdays[1].date

\* C12 as claimed: when get_weekdays has returned with every date of the
\* range a day off, the run is in no error state: fill_time_spent returns an
\* empty list, prepare_worklog no entry, and no add_worklog call is made.
C12_EmptyCalendar ==
    (weekdays = <<>> /\ current_day = last_day + 1) =>
        /\ pc \in {"fill_time_spent", "prepare_worklog", "push_to_jira", "done"}
        /\ prepared_worklogs = <<>>
        /\ add_worklog = <<>>
====
